---------------------------- MODULE Spec2Model ----------------------------
(***************************************************************************)
(* Model of automacao_cartao.py (class ConversorFaturas): the statement    *)
(* parsers for the Santander and Sicoob formats, the projection of the     *)
(* parsed transactions onto the template's columns, the date sort of the   *)
(* resulting table, and the window's callbacks around them.                *)
(*                                                                         *)
(* Text is modelled character by character: a string is a sequence of      *)
(* one-character strings, a statement text is the sequence of its lines    *)
(* (the result of texto.split('\n')).  A number is a record                *)
(* [m |-> mantissa, e |-> digits after the decimal point], that is         *)
(* m * 10^(-e); float rounding is not modelled.                            *)
(***************************************************************************)
EXTENDS Integers, Sequences, FiniteSets, TLC

VARIABLES
    tela,                 \* which screen the window shows
    formato_selecionado,  \* self.formato_selecionado
    ano_fatura,           \* self.ano_fatura
    colunas_modelo,       \* self.colunas_modelo
    texto_fatura,         \* self.texto_fatura: the text widget and its content
    progresso,            \* self.progresso: the progress bar
    arquivo_pdf_selecionado, \* self.arquivo_pdf_selecionado
    pilha,                \* the callbacks in progress, innermost last
    ultima_chamada,       \* the arguments of the latest parser call
    resultado,            \* how the latest finished run ended
    texto,                \* a run's local: the statement text
    pos,                  \* a run's local: the line the parser loop is at
    dados,                \* a run's local: the parsed transactions
    nome_coluna_data,     \* a run's local: the resolved date column
    nova_linha,           \* a run's local: the row being filled
    df,                   \* a run's local: the table
    df_antes,             \* the table before the latest sort step
    fase                  \* where a run is

vars_ui == <<tela, formato_selecionado, ano_fatura, colunas_modelo,
             texto_fatura, progresso, arquivo_pdf_selecionado, pilha,
             ultima_chamada, resultado>>
vars_run == <<texto, pos, dados, nome_coluna_data, nova_linha, df, df_antes, fase>>
vars == <<tela, formato_selecionado, ano_fatura, colunas_modelo,
          texto_fatura, progresso, arquivo_pdf_selecionado, pilha,
          ultima_chamada, resultado,
          texto, pos, dados, nome_coluna_data, nova_linha, df, df_antes, fase>>

\* None, for the attributes that hold a string
None == "None"

\* an attribute that holds None or an integer: <<>> is None, <<n>> is n
NoneInt == <<>>
Int1(n) == <<n>>

\* an attribute that holds None or a list: <<>> is None, <<l>> is the list l
NoneLista == <<>>
Lista(l) == <<l>>

(***************************************************************************)
(* Characters and strings                                                  *)
(***************************************************************************)
Digito == {"0", "1", "2", "3", "4", "5", "6", "7", "8", "9"}

DigitoVal == [c \in Digito |->
    CASE c = "0" -> 0 [] c = "1" -> 1 [] c = "2" -> 2 [] c = "3" -> 3
      [] c = "4" -> 4 [] c = "5" -> 5 [] c = "6" -> 6 [] c = "7" -> 7
      [] c = "8" -> 8 [] c = "9" -> 9]

\* \s of the regular expressions and the characters str.strip() removes
Branco == {" "}

\* s[i] is a digit (\d)
EhDigito(s, i) == i >= 1 /\ i <= Len(s) /\ s[i] \in Digito

\* \d{n} at i
Digitos(s, i, n) == \A k \in i..(i + n - 1) : EhDigito(s, k)

\* the character at i is c
Car(s, i, c) == i >= 1 /\ i <= Len(s) /\ s[i] = c

\* the position after the longest run of whitespace that starts at i (\s* taken greedily)
RECURSIVE FimBrancos(_, _)
FimBrancos(s, i) ==
    IF i >= 1 /\ i <= Len(s) /\ s[i] \in Branco THEN FimBrancos(s, i + 1) ELSE i

\* the position after the longest run of digits that starts at i
RECURSIVE FimDigitos(_, _)
FimDigitos(s, i) ==
    IF EhDigito(s, i) THEN FimDigitos(s, i + 1) ELSE i

\* str.strip()
RECURSIVE StripEsquerda(_)
StripEsquerda(s) ==
    IF s # <<>> /\ Head(s) \in Branco THEN StripEsquerda(Tail(s)) ELSE s

RECURSIVE StripDireita(_)
StripDireita(s) ==
    IF s # <<>> /\ s[Len(s)] \in Branco
    THEN StripDireita(SubSeq(s, 1, Len(s) - 1)) ELSE s

Strip(s) == StripDireita(StripEsquerda(s))

\* str.replace(de, para) for a one-character de and a para of length 0 or 1
RECURSIVE Replace(_, _, _)
Replace(s, de, para) ==
    IF s = <<>> THEN <<>>
    ELSE (IF Head(s) = de THEN para ELSE <<Head(s)>>) \o Replace(Tail(s), de, para)

\* sub in s (substring test)
Contem(s, sub) ==
    \E i \in 1..(Len(s) - Len(sub) + 1) : SubSeq(s, i, i + Len(sub) - 1) = sub

\* the integer a sequence of digits denotes (0 for the empty sequence)
RECURSIVE ValorInt(_)
ValorInt(ds) ==
    IF ds = <<>> THEN 0
    ELSE 10 * ValorInt(SubSeq(ds, 1, Len(ds) - 1)) + DigitoVal[ds[Len(ds)]]

\* float(s) raises ValueError, for the strings the parsers build (digits, '.', a
\* leading '-'): no digit at all, a second '.', or a character that is neither
FloatValueError(s) ==
    LET corpo == IF s # <<>> /\ Head(s) = "-" THEN Tail(s) ELSE s
        semPonto == SelectSeq(corpo, LAMBDA c : c # ".")
    IN  \/ semPonto = <<>>
        \/ Cardinality({i \in 1..Len(corpo) : corpo[i] = "."}) > 1
        \/ \E i \in 1..Len(semPonto) : semPonto[i] \notin Digito

\* float(s) where it does not raise
Float(s) ==
    LET neg == s # <<>> /\ Head(s) = "-"
        corpo == IF neg THEN Tail(s) ELSE s
        pontos == {i \in 1..Len(corpo) : corpo[i] = "."}
        m == ValorInt(SelectSeq(corpo, LAMBDA c : c # "."))
        e == IF pontos = {} THEN 0 ELSE Len(corpo) - (CHOOSE i \in pontos : TRUE)
    IN  [m |-> IF neg THEN 0 - m ELSE m, e |-> e]

\* 10^n
RECURSIVE Pot10(_)
Pot10(n) == IF n = 0 THEN 1 ELSE 10 * Pot10(n - 1)

\* x = y and x > 0 for numbers
NumIgual(x, y) == x.m * Pot10(y.e) = y.m * Pot10(x.e)
Positivo(x) == x.m > 0

(***************************************************************************)
(* processar_formato_santander                                             *)
(***************************************************************************)
\* \d{2}\/\d{2}\/\d{4} at i
DataCompletaEm(s, i) ==
    /\ Digitos(s, i, 2) /\ Car(s, i + 2, "/")
    /\ Digitos(s, i + 3, 2) /\ Car(s, i + 5, "/")
    /\ Digitos(s, i + 6, 4)

\* (?:\.\d{3})* taken greedily from i: the position after the last group
RECURSIVE FimGrupos(_, _)
FimGrupos(s, i) ==
    IF Car(s, i, ".") /\ Digitos(s, i + 1, 3) THEN FimGrupos(s, i + 4) ELSE i

\* \d{1,3}(?:\.\d{3})*,\d{2} at i: the position after the match, 0 when there is none.
\* What follows each part is no digit and no '.', so no shorter choice of \d{1,3} or of
\* the groups can match where the longest does not.
FimValor(s, i) ==
    LET d == FimDigitos(s, i)
        g == FimGrupos(s, d)
    IN  IF d - i >= 1 /\ d - i <= 3 /\ Car(s, g, ",") /\ Digitos(s, g + 1, 2)
        THEN g + 3 ELSE 0

\* what padrao needs after the description, which ends at e:
\* \s+(valor)\s+valor\s+\d ; the span <<a, b>> of the captured amount, <<0, 0>> when
\* the rest does not match
RestoPrincipal(s, e) ==
    LET a == FimBrancos(s, e + 1)
        b == FimValor(s, a)
        c == FimBrancos(s, b)
        d == FimValor(s, c)
        f == FimBrancos(s, d)
    IN  IF /\ a > e + 1 /\ b # 0 /\ c > b /\ d # 0 /\ f > d /\ EhDigito(s, f)
        THEN <<a, b - 1>> ELSE <<0, 0>>

\* what padrao_negativo needs after the description: \s+(-valor)
RestoNegativo(s, e) ==
    LET a == FimBrancos(s, e + 1)
        b == IF Car(s, a, "-") THEN FimValor(s, a + 1) ELSE 0
    IN  IF a > e + 1 /\ b # 0 THEN <<a, b - 1>> ELSE <<0, 0>>

\* (?:\.\d{3})*?[.,]\d{2}$ at i: some number of groups, then the separator and two
\* digits that end the line
RECURSIVE CaudaSicoob(_, _)
CaudaSicoob(s, i) ==
    \/ /\ (Car(s, i, ".") \/ Car(s, i, ","))
       /\ Digitos(s, i + 1, 2)
       /\ i + 2 = Len(s)
    \/ /\ Car(s, i, ".") /\ Digitos(s, i + 1, 3)
       /\ CaudaSicoob(s, i + 4)

\* what the Sicoob padrao needs after the description, which ends at e:
\* \s+([-,]?\d{1,3}(?:\.\d{3})*?[.,]\d{2})$
RestoSicoob(s, e) ==
    LET a == FimBrancos(s, e + 1)
        i == IF Car(s, a, "-") \/ Car(s, a, ",") THEN a + 1 ELSE a
        d == FimDigitos(s, i)
    IN  IF a > e + 1 /\ d - i >= 1 /\ d - i <= 3 /\ CaudaSicoob(s, d)
        THEN <<a, Len(s)>> ELSE <<0, 0>>

\* re.search found nothing
SemMatch == [ok |-> FALSE]

\* re.search of ^(data)\s+(.+?)\s+(tail): the groups of the first match in the order
\* the backtracking tries them (the longest \s+ after the date first, then the
\* shortest description), or SemMatch. Resto(s, e) is the span of the captured amount
\* when the pattern's tail matches after a description that ends at e, and fimData
\* is the last position of the date.
Casar(s, fimData, Resto(_, _)) ==
    LET b == FimBrancos(s, fimData + 1)
        inicios == {p \in (fimData + 2)..b :
                      \E e \in p..Len(s) : Resto(s, e)[1] # 0}
    IN  IF inicios = {} THEN SemMatch
        ELSE LET p == CHOOSE x \in inicios : \A y \in inicios : y <= x
                 e == CHOOSE x \in p..Len(s) :
                        /\ Resto(s, x)[1] # 0
                        /\ \A y \in p..(x - 1) : Resto(s, y)[1] = 0
                 v == Resto(s, e)
             IN  [ok |-> TRUE, data |-> SubSeq(s, 1, fimData),
                  descricao |-> SubSeq(s, p, e), valor_str |-> SubSeq(s, v[1], v[2])]

\* re.search(padrao, linha)
CasarPrincipal(linha) ==
    IF DataCompletaEm(linha, 1) THEN Casar(linha, 10, RestoPrincipal) ELSE SemMatch

\* re.search(padrao_negativo, linha)
CasarNegativo(linha) ==
    IF DataCompletaEm(linha, 1) THEN Casar(linha, 10, RestoNegativo) ELSE SemMatch

\* ConverterValor with the ',' removed like the '.', not read as the decimal point
ConverterValorSemDecimal(valor_str) ==
    Float(Replace(Replace(valor_str, ".", <<>>), ",", <<>>))

\* float(valor_str.replace('.', '').replace(',', '.'))
ConverterValor(valor_str) ==
    Float(Replace(Replace(valor_str, ".", <<>>), ",", <<".">>))

\* the dictionary the parsers append
Transacao(data, descricao, valor) ==
    [Data |-> data, Descricao |-> Strip(descricao), Valor |-> valor,
     Observacao |-> Strip(descricao)]

\* the guard of the append in processar_formato_santander
GastoSantander(valor) == Positivo(valor)

\* SantanderLinha with the reversal lines of the fallback branch appended too
SantanderLinhaComEstorno(bruta) ==
    LET linha == Strip(bruta)
        match == CasarPrincipal(linha)
        match_neg == CasarNegativo(linha)
    IN  IF linha = <<>> THEN <<>>
        ELSE IF match.ok
             THEN LET valor == ConverterValor(match.valor_str)
                  IN  IF GastoSantander(valor)
                      THEN <<Transacao(match.data, match.descricao, valor)>>
                      ELSE <<>>
             ELSE IF match_neg.ok
                  THEN <<Transacao(match_neg.data, match_neg.descricao,
                                   ConverterValor(match_neg.valor_str))>>
                  ELSE <<>>

\* the body of the loop of processar_formato_santander for one line of the text:
\* the transactions it appends
SantanderLinha(bruta) ==
    LET linha == Strip(bruta)
        match == CasarPrincipal(linha)
    IN  IF linha = <<>> THEN <<>>
        ELSE IF match.ok
             THEN LET valor == ConverterValor(match.valor_str)
                  IN  IF GastoSantander(valor)
                      THEN <<Transacao(match.data, match.descricao, valor)>>
                      ELSE <<>>
             ELSE <<>>

\* processar_formato_santander(texto)
RECURSIVE ProcessarFormatoSantander(_)
ProcessarFormatoSantander(t) ==
    IF t = <<>> THEN <<>>
    ELSE SantanderLinha(Head(t)) \o ProcessarFormatoSantander(Tail(t))


(***************************************************************************)
(* processar_formato_sicoob                                                *)
(***************************************************************************)
\* \d{2}\/\d{2} at i
DiaMesEm(s, i) ==
    Digitos(s, i, 2) /\ Car(s, i + 2, "/") /\ Digitos(s, i + 3, 2)

\* re.search(padrao, linha) of processar_formato_sicoob
CasarSicoob(linha) ==
    IF DiaMesEm(linha, 1) THEN Casar(linha, 5, RestoSicoob) ELSE SemMatch

\* the words that mark a line of the statement that is no transaction
Marcadores ==
    { <<"S", "A", "L", "D", "O", " ", "A", "N", "T", "E", "R", "I", "O", "R">>,
      <<"T", "O", "T", "A", "L">>,
      <<"G", "A", "S", "T", "O", "S", " ", "D", "E">> }

\* TemMarcador with 'GASTOS DE' left out of the list
TemMarcadorSemGastos(linha) ==
    \E palavra \in Marcadores \ {<<"G", "A", "S", "T", "O", "S", " ", "D", "E">>} :
        Contem(linha, palavra)

\* any(palavra in linha for palavra in [...])
TemMarcador(linha) == \E palavra \in Marcadores : Contem(linha, palavra)

\* str(n) for n >= 0
RECURSIVE IntStr(_)
IntStr(n) ==
    LET c == CHOOSE x \in Digito : DigitoVal[x] = n % 10
    IN  IF n < 10 THEN <<c>> ELSE IntStr(n \div 10) \o <<c>>

\* f"{data_str}/{ano}"
CompletarData(data_str, ano) ==
    data_str \o <<"/">> \o
    (IF ano = NoneInt THEN <<"N", "o", "n", "e">> ELSE IntStr(ano[1]))

\* the guard of the append in processar_formato_sicoob
GastoSicoob(valor) == Positivo(valor)

\* the line reaches float(valor_str) and float raises ValueError
SicoobLinhaLevanta(bruta) ==
    LET linha == Strip(bruta)
        match == CasarSicoob(linha)
    IN  /\ linha # <<>>
        /\ ~TemMarcador(linha)
        /\ match.ok
        /\ FloatValueError(Replace(Replace(match.valor_str, ".", <<>>), ",", <<".">>))

\* the body of the loop of processar_formato_sicoob for one line of the text that
\* does not raise: the transactions it appends
SicoobLinha(bruta, ano) ==
    LET linha == Strip(bruta)
        match == CasarSicoob(linha)
    IN  IF linha = <<>> \/ TemMarcador(linha) THEN <<>>
        ELSE IF match.ok
             THEN LET valor == ConverterValor(match.valor_str)
                  IN  IF GastoSicoob(valor)
                      THEN <<Transacao(CompletarData(match.data, ano),
                                       match.descricao, valor)>>
                      ELSE <<>>
             ELSE <<>>

\* processar_formato_sicoob(texto, ano) raises
SicoobLevanta(t) == \E k \in 1..Len(t) : SicoobLinhaLevanta(t[k])

\* processar_formato_sicoob(texto, ano) where it does not raise
RECURSIVE ProcessarFormatoSicoob(_, _)
ProcessarFormatoSicoob(t, ano) ==
    IF t = <<>> THEN <<>>
    ELSE SicoobLinha(Head(t), ano) \o ProcessarFormatoSicoob(Tail(t), ano)

(***************************************************************************)
(* identificar_coluna_data and the projection of a transaction onto the    *)
(* template's columns (processar_fatura, the loop over dados)              *)
(***************************************************************************)
\* possiveis_nomes
possiveis_nomes ==
    << <<"D", "a", "t", "a">>,
       <<"D", "a", "t", "a", " ", "V", "e", "n", "c", "i", "m", "e", "n", "t", "o">>,
       <<"D", "a", "t", "a", "_", "V", "e", "n", "c", "i", "m", "e", "n", "t", "o">>,
       <<"D", "t", "_", "V", "e", "n", "c", "i", "m", "e", "n", "t", "o">>,
       <<"D", "a", "t", "e">> >>

\* the elements of a sequence
Elementos(q) == {q[i] : i \in 1..Len(q)}

\* IdentificarColunaData with the loop over the template's columns instead of over
\* possiveis_nomes: the first column that is a candidate
IdentificarPelaOrdemDasColunas(colunas) ==
    LET achadas == SelectSeq(colunas, LAMBDA col : col \in Elementos(possiveis_nomes))
    IN  IF achadas # <<>> THEN achadas[1]
        ELSE IF colunas # <<>> THEN colunas[1] ELSE <<"D", "a", "t", "a">>

\* identificar_coluna_data()
IdentificarColunaData(colunas) ==
    LET achados == SelectSeq(possiveis_nomes, LAMBDA nome : nome \in Elementos(colunas))
    IN  IF achados # <<>> THEN achados[1]
        ELSE IF colunas # <<>> THEN colunas[1] ELSE <<"D", "a", "t", "a">>

\* str.lower(), letter by letter
Minuscula(c) ==
    CASE c = "A" -> "a" [] c = "B" -> "b" [] c = "C" -> "c" [] c = "D" -> "d"
      [] c = "E" -> "e" [] c = "F" -> "f" [] c = "G" -> "g" [] c = "H" -> "h"
      [] c = "I" -> "i" [] c = "J" -> "j" [] c = "K" -> "k" [] c = "L" -> "l"
      [] c = "M" -> "m" [] c = "N" -> "n" [] c = "O" -> "o" [] c = "P" -> "p"
      [] c = "Q" -> "q" [] c = "R" -> "r" [] c = "S" -> "s" [] c = "T" -> "t"
      [] c = "U" -> "u" [] c = "V" -> "v" [] c = "W" -> "w" [] c = "X" -> "x"
      [] c = "Y" -> "y" [] c = "Z" -> "z" [] OTHER -> c

Lower(s) == [i \in 1..Len(s) |-> Minuscula(s[i])]

\* the words that make a column the column of a role
PalavrasChave(papel) ==
    CASE papel = "descricao" ->
           { <<"d", "e", "s", "c", "r", "i", "c", "a", "o">>,
             <<"d", "e", "s", "c", "r", "i", "p", "t", "i", "o", "n">>,
             <<"d", "e", "s", "c">> }
      [] papel = "valor" ->
           { <<"v", "a", "l", "o", "r">>,
             <<"v", "a", "l", "u", "e">>,
             <<"a", "m", "o", "u", "n", "t">> }
      [] papel = "observacao" ->
           { <<"o", "b", "s", "e", "r", "v", "a", "c", "a", "o">>,
             <<"o", "b", "s">>,
             <<"o", "b", "s", "e", "r", "v", "a", "t", "i", "o", "n">> }

\* a cell of a row: a string, a number, or (inside the sort step) a date or NaT
Str(s) == [tipo |-> "str", s |-> s]
Num(v) == [tipo |-> "float", m |-> v.m, e |-> v.e]

\* item.get(...) of the role, as a cell
ValorDoPapel(item, papel) ==
    CASE papel = "descricao" -> Str(item.Descricao)
      [] papel = "valor" -> Num(item.Valor)
      [] papel = "observacao" -> Str(item.Observacao)

\* ColunasDoPapel without the lower(): the words compared with the name as written
ColunasDoPapelSemLower(colunas, papel) ==
    SelectSeq(colunas, LAMBDA col : \E palavra \in PalavrasChave(papel) : Contem(col, palavra))

\* [col for col in self.colunas_modelo if any(palavra in col.lower() for palavra in [...])]
ColunasDoPapel(colunas, papel) ==
    SelectSeq(colunas,
              LAMBDA col : \E palavra \in PalavrasChave(papel) : Contem(Lower(col), palavra))

\* a row is the sequence of its cells, in the order of the columns;
\* nova_linha[coluna] = '' for every column
LinhaVazia(colunas) == [i \in 1..Len(colunas) |-> Str(<<>>)]

\* nova_linha[nome] = celula
Escrever(linha, colunas, nome, celula) ==
    [i \in 1..Len(colunas) |-> IF colunas[i] = nome THEN celula ELSE linha[i]]

\* the lines of one role: its columns, and the write to the first of them if any
EscreverPapel(linha, colunas, papel, item) ==
    LET cs == ColunasDoPapel(colunas, papel)
    IN  IF cs # <<>> THEN Escrever(linha, colunas, cs[1], ValorDoPapel(item, papel))
        ELSE linha

\* the body of `for item in dados`: the row of one transaction
NovaLinha(item, colunas, coluna_data) ==
    LET l1 == Escrever(LinhaVazia(colunas), colunas, coluna_data, Str(item.Data))
        l2 == EscreverPapel(l1, colunas, "descricao", item)
        l3 == EscreverPapel(l2, colunas, "valor", item)
    IN  EscreverPapel(l3, colunas, "observacao", item)

\* the table after the loop: one row per transaction, in the order of dados
MontarTabela(ds, colunas, coluna_data) ==
    [k \in 1..Len(ds) |-> NovaLinha(ds[k], colunas, coluna_data)]

(***************************************************************************)
(* The ordering block of processar_fatura: to_datetime with the format     *)
(* '%d/%m/%Y' and errors='coerce', sort_values, dropna, strftime           *)
(***************************************************************************)
\* s.split("/")
RECURSIVE Partes(_)
Partes(s) ==
    IF \E i \in 1..Len(s) : s[i] = "/"
    THEN LET i == CHOOSE k \in 1..Len(s) : s[k] = "/" /\ \A j \in 1..(k - 1) : s[j] # "/"
         IN  <<SubSeq(s, 1, i - 1)>> \o Partes(SubSeq(s, i + 1, Len(s)))
    ELSE <<s>>

\* the field is one or two digits, or a blank and a digit where the directive takes one
CampoCurto(p, comBranco) ==
    \/ Len(p) \in {1, 2} /\ \A i \in 1..Len(p) : p[i] \in Digito
    \/ comBranco /\ Len(p) = 2 /\ p[1] = " " /\ p[2] \in Digito

NumeroDoCampo(p) == ValorInt(SelectSeq(p, LAMBDA c : c \in Digito))

Bissexto(a) == a % 4 = 0 /\ (a % 100 # 0 \/ a % 400 = 0)

DiasNoMes(a, m) ==
    IF m = 2 THEN (IF Bissexto(a) THEN 29 ELSE 28)
    ELSE IF m \in {4, 6, 9, 11} THEN 30 ELSE 31

NaT == [nat |-> TRUE]

\* one string under the format '%d/%m/%Y' with errors='coerce': %d is 1..31 in one or
\* two characters, %m is 1..12, %Y is four digits, and the day exists in the month.
\* The bounds of a nanosecond timestamp (years 1677 to 2262) are left out: the years
\* of the inputs are far inside them.
ParseData(s) ==
    LET ps == Partes(s)
        d == NumeroDoCampo(ps[1])
        m == NumeroDoCampo(ps[2])
        a == NumeroDoCampo(ps[3])
    IN  IF /\ Len(ps) = 3
           /\ CampoCurto(ps[1], TRUE) /\ d >= 1 /\ d <= 31
           /\ CampoCurto(ps[2], FALSE) /\ m >= 1 /\ m <= 12
           /\ Len(ps[3]) = 4 /\ (\A i \in 1..4 : ps[3][i] \in Digito) /\ a >= 1
           /\ d <= DiasNoMes(a, m)
        THEN [nat |-> FALSE, a |-> a, m |-> m, d |-> d]
        ELSE NaT

\* pd.to_datetime of one cell: a cell that is no string has no date
ParaData(celula) ==
    IF celula.tipo = "str" THEN ParseData(celula.s) ELSE NaT

\* the order of the dates taken as the strings they were written as
ChaveComoTexto(data) == data.d * 1000000 + data.m * 10000 + data.a

\* the order of datetime64 values
Chave(data) == data.a * 10000 + data.m * 100 + data.d

DoisDigitos(n) == IF n < 10 THEN <<"0">> \o IntStr(n) ELSE IntStr(n)

\* .dt.strftime('%d/%m/%Y')
Strftime(data) ==
    DoisDigitos(data.d) \o <<"/">> \o DoisDigitos(data.m) \o <<"/">> \o IntStr(data.a)

\* the tables the block can leave, for the date column at position j: the rows whose
\* cell has a date, in ascending order of the dates, each date written again by
\* strftime.  sort_values is called without kind, and its default ('quicksort') is not
\* stable: rows of equal dates come out in any order.
Ordenacoes(tabela, j) ==
    LET comData == {i \in 1..Len(tabela) : ~ParaData(tabela[i][j]).nat}
        n == Cardinality(comData)
        chave(i) == Chave(ParaData(tabela[i][j]))
        linha(i) == [tabela[i] EXCEPT ![j] = Str(Strftime(ParaData(tabela[i][j])))]
        ordens == {o \in [1..n -> comData] :
                     /\ \A x, y \in 1..n : x # y => o[x] # o[y]
                     /\ \A x \in 1..(n - 1) : chave(o[x]) <= chave(o[x + 1])}
    IN  {[x \in 1..n |-> linha(o[x])] : o \in ordens}

\* the position of a name among the columns
Posicao(colunas, nome) == CHOOSE i \in 1..Len(colunas) : colunas[i] = nome

(***************************************************************************)
(* Inputs: statement lines built from tokens                               *)
(***************************************************************************)
TokData == <<"0", "1", "/", "0", "3", "/", "2", "0", "2", "4">>
TokUber == <<"U", "B", "E", "R">>
TokValor == <<"1", ".", "2", "3", "4", ",", "5", "6">>
TokNegativo == <<"-", "1", ",", "0", "0">>
TokZero == <<"0", ",", "0", "0">>

TokDiaMes == <<"0", "5", "/", "0", "3">>
TokValorPonto == <<"1", "2", "0", ".", "0", "0">>
TokVirgulaSinal == <<",", "1", ",", "0", "0">>
TokTotal == <<"T", "O", "T", "A", "L">>
TokSaldo == <<"S", "A", "L", "D", "O", " ", "A", "N", "T", "E", "R", "I", "O", "R">>
TokGastos == <<"G", "A", "S", "T", "O", "S", " ", "D", "E">>

\* ' '.join(tokens)
RECURSIVE Juntar(_)
Juntar(tokens) ==
    IF tokens = <<>> THEN <<>>
    ELSE IF Len(tokens) = 1 THEN Head(tokens)
    ELSE Head(tokens) \o <<" ">> \o Juntar(Tail(tokens))

\* the sequences of 1..n elements of S
SeqAte(S, n) == UNION {[1..k -> S] : k \in 1..n}

\* the longest line of the Santander inputs, in tokens
MaxTokensSantander == 6

\* the empty token puts a blank before or after a line, or a second blank between
\* two tokens
TokVazio == <<>>

TokensSantander == {TokData, TokUber, TokValor, TokNegativo, TokZero}

\* a line begins with a date or with a word, and goes on with up to
\* MaxTokensSantander - 1 tokens
LinhasSantander ==
    {Juntar(<<t>> \o ts) :
        t \in {TokData, TokUber},
        ts \in {<<>>} \cup SeqAte(TokensSantander, MaxTokensSantander - 1)}

\* the longest line of the Sicoob inputs, in tokens
MaxTokensSicoob == 3

TokensSicoob == {TokDiaMes, TokUber, TokValor, TokValorPonto, TokNegativo,
                 TokVirgulaSinal, TokTotal, TokSaldo, TokGastos, TokVazio}

\* " 05/03  UBER 1.234,56 "
LinhaSicoobExemplo ==
    Juntar(<<TokVazio, TokDiaMes, TokVazio, TokUber, TokValor, TokVazio>>)

LinhasSicoob ==
    {Juntar(ts) : ts \in SeqAte(TokensSicoob, MaxTokensSicoob)}

\* the years the dialog of pedir_ano_sicoob is answered with
Anos == {2024, 2025}

\* " 01/03/2024  UBER 1.234,56 1.234,56 0,00 "
LinhaSantanderExemplo ==
    Juntar(<<TokVazio, TokData, TokVazio, TokUber, TokValor, TokValor, TokZero, TokVazio>>)

(***************************************************************************)
(* The state outside a run, and the window as a run of each kind finds it  *)
(***************************************************************************)
ColunasExemplo ==
    << <<"D", "a", "t", "a">>,
       <<"D", "e", "s", "c", "r", "i", "c", "a", "o">>,
       <<"V", "a", "l", "o", "r">>,
       <<"O", "b", "s">> >>

SemChamada == [formato |-> None, ano |-> NoneInt]
SemResultado == [fim |-> None, transacoes |-> 0, linhas |-> 0, aviso_datas |-> FALSE]

\* no run in progress
RunParado ==
    /\ texto = <<>> /\ pos = 0 /\ dados = <<>> /\ nome_coluna_data = <<>>
    /\ nova_linha = <<>> /\ df = <<>> /\ df_antes = <<>> /\ fase = "parado"

\* the processing screen of a format, with a text in the text area
NaTelaProcessamento(formato, ano, conteudo) ==
    /\ tela = "processamento"
    /\ formato_selecionado = formato
    /\ ano_fatura = ano
    /\ texto_fatura = [vivo |-> TRUE, conteudo |-> conteudo]
    /\ progresso = "parado"
    /\ arquivo_pdf_selecionado = None
    /\ pilha = <<>>
    /\ ultima_chamada = SemChamada
    /\ resultado = SemResultado

(***************************************************************************)
(* SpecSantander: the loop of processar_formato_santander, line by line    *)
(***************************************************************************)
InitSantander ==
    /\ colunas_modelo = Lista(ColunasExemplo)
    /\ \E l \in LinhasSantander : texto = <<LinhaSantanderExemplo, l>>
    /\ NaTelaProcessamento("santander", NoneInt, texto)
    /\ pos = 1 /\ dados = <<>> /\ nome_coluna_data = <<>>
    /\ nova_linha = <<>> /\ df = <<>> /\ df_antes = <<>> /\ fase = "santander"

\* one iteration of `for linha in texto.split('\n')`
PassoSantander ==
    /\ fase = "santander"
    /\ pos <= Len(texto)
    /\ dados' = dados \o SantanderLinha(texto[pos])
    /\ pos' = pos + 1
    /\ UNCHANGED <<texto, nome_coluna_data, nova_linha, df, df_antes, fase>>
    /\ UNCHANGED vars_ui

\* `return dados`
RetornoSantander ==
    /\ fase = "santander"
    /\ pos > Len(texto)
    /\ fase' = "analisado"
    /\ UNCHANGED <<texto, pos, dados, nome_coluna_data, nova_linha, df, df_antes>>
    /\ UNCHANGED vars_ui

NextSantander == PassoSantander \/ RetornoSantander

SpecSantander == InitSantander /\ [][NextSantander]_vars

(***************************************************************************)
(* SpecSicoob: the loop of processar_formato_sicoob, line by line          *)
(***************************************************************************)
InitSicoob ==
    /\ colunas_modelo = Lista(ColunasExemplo)
    /\ \E l \in LinhasSicoob : texto = <<LinhaSicoobExemplo, l>>
    /\ \E a \in Anos : NaTelaProcessamento("sicoob", Int1(a), texto)
    /\ pos = 1 /\ dados = <<>> /\ nome_coluna_data = <<>>
    /\ nova_linha = <<>> /\ df = <<>> /\ df_antes = <<>> /\ fase = "sicoob"

\* one iteration of `for linha in linhas`; a ValueError of float() leaves the function
PassoSicoob ==
    /\ fase = "sicoob"
    /\ pos <= Len(texto)
    /\ IF SicoobLinhaLevanta(texto[pos])
       THEN fase' = "ValueError" /\ UNCHANGED <<dados, pos>>
       ELSE /\ dados' = dados \o SicoobLinha(texto[pos], ano_fatura)
            /\ pos' = pos + 1
            /\ UNCHANGED fase
    /\ UNCHANGED <<texto, nome_coluna_data, nova_linha, df, df_antes>>
    /\ UNCHANGED vars_ui

\* `return dados`
RetornoSicoob ==
    /\ fase = "sicoob"
    /\ pos > Len(texto)
    /\ fase' = "analisado"
    /\ UNCHANGED <<texto, pos, dados, nome_coluna_data, nova_linha, df, df_antes>>
    /\ UNCHANGED vars_ui

NextSicoob == PassoSicoob \/ RetornoSicoob

SpecSicoob == InitSicoob /\ [][NextSicoob]_vars

(***************************************************************************)
(* SpecColunas: identificar_coluna_data and the filling of one row, write  *)
(* by write, for the templates of up to MaxColunas columns                 *)
(***************************************************************************)
\* the longest template, in columns
MaxColunas == 3

NomesDeColuna ==
    { <<"D", "a", "t", "a">>,
      <<"D", "a", "t", "a", " ", "V", "e", "n", "c", "i", "m", "e", "n", "t", "o">>,
      <<"D", "a", "t", "a", "_", "V", "e", "n", "c", "i", "m", "e", "n", "t", "o">>,
      <<"D", "t", "_", "V", "e", "n", "c", "i", "m", "e", "n", "t", "o">>,
      <<"D", "a", "t", "e">>,
      <<"d", "a", "t", "a">>,
      <<"D", "E", "S", "C", "R", "I", "C", "A", "O">>,
      <<"V", "a", "l", "o", "r", " ", "D", "e", "s", "c">>,
      <<"V", "a", "l", "o", "r">>,
      <<"O", "b", "s">>,
      <<"H", "i", "s", "t", "o", "r", "i", "c", "o">> }

\* the templates: pandas gives every column of a sheet a name of its own
Modelos ==
    {c \in SeqAte(NomesDeColuna, MaxColunas) :
        \A i, j \in 1..Len(c) : i # j => c[i] # c[j]}

InitColunas ==
    /\ \E c \in Modelos : colunas_modelo = Lista(c)
    /\ texto = <<LinhaSantanderExemplo>>
    /\ NaTelaProcessamento("santander", NoneInt, texto)
    /\ pos = 2 /\ dados = ProcessarFormatoSantander(texto)
    /\ nome_coluna_data = <<>> /\ nova_linha = <<>>
    /\ df = <<>> /\ df_antes = <<>> /\ fase = "identificar"

\* nome_coluna_data = self.identificar_coluna_data()
Identificar ==
    /\ fase = "identificar"
    /\ nome_coluna_data' = IdentificarColunaData(colunas_modelo[1])
    /\ fase' = "vazia"
    /\ UNCHANGED <<texto, pos, dados, nova_linha, df, df_antes>>
    /\ UNCHANGED vars_ui

\* for coluna in self.colunas_modelo: nova_linha[coluna] = ''
PreencherVazia ==
    /\ fase = "vazia"
    /\ nova_linha' = LinhaVazia(colunas_modelo[1])
    /\ fase' = "data"
    /\ UNCHANGED <<texto, pos, dados, nome_coluna_data, df, df_antes>>
    /\ UNCHANGED vars_ui

\* nova_linha[nome_coluna_data] = item.get('Data', '')
EscreverData ==
    /\ fase = "data"
    /\ nova_linha' = Escrever(nova_linha, colunas_modelo[1], nome_coluna_data,
                              Str(dados[1].Data))
    /\ fase' = "descricao"
    /\ UNCHANGED <<texto, pos, dados, nome_coluna_data, df, df_antes>>
    /\ UNCHANGED vars_ui

\* the lines of one role, and the role that follows it
EscreverDoPapel(papel, seguinte) ==
    /\ fase = papel
    /\ nova_linha' = EscreverPapel(nova_linha, colunas_modelo[1], papel, dados[1])
    /\ fase' = seguinte
    /\ UNCHANGED <<texto, pos, dados, nome_coluna_data, df, df_antes>>
    /\ UNCHANGED vars_ui

EscreverDescricao == EscreverDoPapel("descricao", "valor")
EscreverValor == EscreverDoPapel("valor", "observacao")
EscreverObservacao == EscreverDoPapel("observacao", "acrescentar")

\* df.loc[len(df)] = nova_linha
Acrescentar ==
    /\ fase = "acrescentar"
    /\ df' = Append(df, nova_linha)
    /\ fase' = "projetado"
    /\ UNCHANGED <<texto, pos, dados, nome_coluna_data, nova_linha, df_antes>>
    /\ UNCHANGED vars_ui

NextColunas ==
    \/ Identificar \/ PreencherVazia \/ EscreverData
    \/ EscreverDescricao \/ EscreverValor \/ EscreverObservacao
    \/ Acrescentar

SpecColunas == InitColunas /\ [][NextColunas]_vars

(***************************************************************************)
(* SpecTabela: from the parsed transactions to the ordered table, and the  *)
(* ordering block applied once more to the table it left                   *)
(***************************************************************************)
\* the longest statement, in lines
MaxTransacoes == 3

TokJaneiro == <<"1", "0", "/", "0", "1", "/", "2", "0", "2", "4">>
TokFevereiro == <<"0", "5", "/", "0", "2", "/", "2", "0", "2", "4">>
TokDiaInexistente == <<"3", "1", "/", "0", "2", "/", "2", "0", "2", "4">>
TokDescricaoData == <<"5", "/", "2", "/", "2", "0", "2", "4">>

\* statement lines that match the primary grammar: a date that may not exist, and a
\* description that may read as a date
LinhasTabela ==
    {Juntar(<<data, descricao, TokValor, TokValor, TokZero>>) :
        data \in {TokJaneiro, TokFevereiro, TokDiaInexistente},
        descricao \in {TokUber, TokDescricaoData}}

ModelosTabela ==
    { ColunasExemplo,
      << <<"D", "e", "s", "c", "r", "i", "c", "a", "o">>, <<"V", "a", "l", "o", "r">> >>,
      << <<"H", "i", "s", "t", "o", "r", "i", "c", "o">>, <<"V", "a", "l", "o", "r">> >> }

InitTabela ==
    /\ \E c \in ModelosTabela : colunas_modelo = Lista(c)
    /\ texto \in SeqAte(LinhasTabela, MaxTransacoes)
    /\ NaTelaProcessamento("santander", NoneInt, texto)
    /\ pos = Len(texto) + 1 /\ dados = ProcessarFormatoSantander(texto)
    /\ nome_coluna_data = <<>> /\ nova_linha = <<>>
    /\ df = <<>> /\ df_antes = <<>> /\ fase = "analisado"

\* from `if not dados` to the end of `for item in dados`
Montar ==
    /\ fase = "analisado"
    /\ dados # <<>>
    /\ nome_coluna_data' = IdentificarColunaData(colunas_modelo[1])
    /\ df' = MontarTabela(dados, colunas_modelo[1], nome_coluna_data')
    /\ fase' = "montado"
    /\ UNCHANGED <<texto, pos, dados, nova_linha, df_antes>>
    /\ UNCHANGED vars_ui

\* the ordering block
Ordenar ==
    /\ fase = "montado"
    /\ nome_coluna_data \in Elementos(colunas_modelo[1]) /\ df # <<>>
    /\ df' \in Ordenacoes(df, Posicao(colunas_modelo[1], nome_coluna_data))
    /\ fase' = "ordenado"
    /\ UNCHANGED <<texto, pos, dados, nome_coluna_data, nova_linha, df_antes>>
    /\ UNCHANGED vars_ui

\* the ordering block, on the table it left
Reordenar ==
    /\ fase = "ordenado"
    /\ df_antes' = df
    /\ df' \in Ordenacoes(df, Posicao(colunas_modelo[1], nome_coluna_data))
    /\ fase' = "reordenado"
    /\ UNCHANGED <<texto, pos, dados, nome_coluna_data, nova_linha>>
    /\ UNCHANGED vars_ui

NextTabela == Montar \/ Ordenar \/ Reordenar

SpecTabela == InitTabela /\ [][NextTabela]_vars

(***************************************************************************)
(* Spec: the window.  The callbacks of the buttons run to their end or to  *)
(* a root.update(), which runs the callbacks of the events that are        *)
(* waiting before it returns; pilha holds the callbacks so suspended.  The *)
(* dialogs are modal: a callback goes through them in one step.            *)
(***************************************************************************)
\* the callbacks that may be suspended one inside the other
MaxAninhamento == 1

LinhaSicoobValueError == Juntar(<<TokDiaMes, TokUber, TokVirgulaSinal>>)

\* a Santander transaction on a day that does not exist
LinhaDataInexistente ==
    Juntar(<<TokDiaInexistente, TokUber, TokValor, TokValor, TokZero>>)

\* what the user leaves in the text area, and what the OCR reads
TextosUI ==
    { <<>>, <<LinhaSantanderExemplo, LinhaDataInexistente>>, <<LinhaSicoobExemplo>>,
      <<LinhaSicoobValueError>> }

\* the years the user answers the dialog with
AnosUI == {2024}

\* SemColunas that tests only `is None`: an empty list of columns passes
SemColunasSoNone == colunas_modelo = NoneLista

\* not self.colunas_modelo
SemColunas == colunas_modelo = NoneLista \/ colunas_modelo[1] = <<>>

\* obter_colunas_modelo returned None, an empty list, or the columns of the sheet;
\* then criar_tela_inicial
Init ==
    /\ colunas_modelo \in {NoneLista, Lista(<<>>), Lista(ColunasExemplo)}
    /\ tela = IF SemColunas THEN "nenhuma" ELSE "inicial"
    /\ formato_selecionado = None
    /\ ano_fatura = NoneInt
    /\ texto_fatura = [vivo |-> FALSE, conteudo |-> <<>>]
    /\ progresso = None
    /\ arquivo_pdf_selecionado = None
    /\ pilha = <<>>
    /\ ultima_chamada = SemChamada
    /\ resultado = SemResultado
    /\ RunParado

Topo == pilha[Len(pilha)]
Desempilhar == SubSeq(pilha, 1, Len(pilha) - 1)

\* a callback stops at the root.update() of line pc
Suspender(cb, pc, t) ==
    /\ Len(pilha) < MaxAninhamento
    /\ pilha' = Append(pilha, [cb |-> cb, pc |-> pc, texto |-> t])

\* criar_tela_processamento: the widgets of the screen are made anew
TelaProcessamento ==
    /\ tela' = "processamento"
    /\ texto_fatura' = [vivo |-> TRUE, conteudo |-> <<>>]
    /\ progresso' = "parado"

\* the button of the Santander card: iniciar_processamento('santander')
ClicarSantander ==
    /\ tela = "inicial"
    /\ formato_selecionado' = "santander"
    /\ TelaProcessamento
    /\ UNCHANGED <<ano_fatura, colunas_modelo, arquivo_pdf_selecionado, pilha,
                   ultima_chamada, resultado>>
    /\ UNCHANGED vars_run

\* the button of the Sicoob card: iniciar_processamento('sicoob') and
\* pedir_ano_sicoob, the dialog answered with a year or cancelled
ClicarSicoob ==
    /\ tela = "inicial"
    /\ formato_selecionado' = "sicoob"
    /\ \E resposta \in {NoneInt} \cup {Int1(a) : a \in AnosUI} :
        /\ ano_fatura' = resposta
        /\ IF resposta # NoneInt THEN TelaProcessamento
           ELSE UNCHANGED <<tela, texto_fatura, progresso>>
    /\ UNCHANGED <<colunas_modelo, arquivo_pdf_selecionado, pilha,
                   ultima_chamada, resultado>>
    /\ UNCHANGED vars_run

\* the user pastes or types a statement into the text area
Colar ==
    /\ tela = "processamento"
    /\ \E t \in TextosUI : texto_fatura' = [texto_fatura EXCEPT !.conteudo = t]
    /\ UNCHANGED <<tela, formato_selecionado, ano_fatura, colunas_modelo, progresso,
                   arquivo_pdf_selecionado, pilha, ultima_chamada, resultado>>
    /\ UNCHANGED vars_run

\* the Voltar button: criar_tela_inicial, whose limpar_tela destroys the widgets
ClicarVoltar ==
    /\ tela = "processamento"
    /\ tela' = IF SemColunas THEN "nenhuma" ELSE "inicial"
    /\ texto_fatura' = [texto_fatura EXCEPT !.vivo = FALSE]
    /\ progresso' = "destruido"
    /\ UNCHANGED <<formato_selecionado, ano_fatura, colunas_modelo,
                   arquivo_pdf_selecionado, pilha, ultima_chamada, resultado>>
    /\ UNCHANGED vars_run

\* the Limpar button: limpar_texto, up to its root.update()
ClicarLimpar ==
    /\ tela = "processamento"
    /\ texto_fatura' = [texto_fatura EXCEPT !.conteudo = <<>>]
    /\ Suspender("limpar_texto", "563", <<>>)
    /\ UNCHANGED <<tela, formato_selecionado, ano_fatura, colunas_modelo, progresso,
                   arquivo_pdf_selecionado, ultima_chamada, resultado>>
    /\ UNCHANGED vars_run

\* .strip() of the whole text is empty
TextoVazio(t) == \A i \in 1..Len(t) : Strip(t[i]) = <<>>

\* the Gerar button: processar_fatura up to the root.update() of
\* iniciar_animacao_processamento, or to the warning when there is no text
ClicarGerar ==
    /\ tela = "processamento"
    /\ IF TextoVazio(texto_fatura.conteudo)
       THEN /\ resultado' = [fim |-> "aviso", transacoes |-> 0, linhas |-> 0,
                             aviso_datas |-> FALSE]
            /\ UNCHANGED <<progresso, pilha>>
       ELSE /\ progresso' = "rodando"
            /\ Suspender("processar_fatura", "571", texto_fatura.conteudo)
            /\ UNCHANGED resultado
    /\ UNCHANGED <<tela, formato_selecionado, ano_fatura, colunas_modelo, texto_fatura,
                   arquivo_pdf_selecionado, ultima_chamada>>
    /\ UNCHANGED vars_run

\* the upload button of the Santander screen: selecionar_arquivo_pdf, the file dialog
\* answered with a file or cancelled, and processar_pdf_selecionado up to the
\* root.update() of iniciar_animacao_processamento
ClicarUpload ==
    /\ tela = "processamento" /\ formato_selecionado = "santander"
    /\ \E arquivo \in {"", "fatura.pdf"} :
        IF arquivo # ""
        THEN /\ arquivo_pdf_selecionado' = arquivo
             /\ progresso' = "rodando"
             /\ Suspender("processar_pdf_selecionado", "571", <<>>)
        ELSE UNCHANGED <<arquivo_pdf_selecionado, progresso, pilha>>
    /\ UNCHANGED <<tela, formato_selecionado, ano_fatura, colunas_modelo, texto_fatura,
                   ultima_chamada, resultado>>
    /\ UNCHANGED vars_run

\* finalizar_animacao_processamento up to its root.update(), with the outcome the run
\* reports: the end of the run, the number of transactions in its message, the rows
\* of the table, and whether the ordering block warned about the dates. The block
\* warns only in its except clause (line 667), and to_datetime with errors='coerce',
\* sort_values, dropna and strftime raise for no table: aviso_datas is never set.
\* On widgets that limpar_tela destroyed self.progresso.stop() raises
\* TclError, inside the try as in the except clause, and the callback ends with it
Finalizar(fim, n, k) ==
    IF progresso # "destruido"
    THEN /\ progresso' = "parado"
         /\ pilha' = [pilha EXCEPT ![Len(pilha)].pc = "585"]
         /\ resultado' = [fim |-> fim, transacoes |-> n, linhas |-> k,
                          aviso_datas |-> FALSE]
    ELSE /\ progresso' = progresso
         /\ pilha' = Desempilhar
         /\ resultado' = [fim |-> "TclError", transacoes |-> 0, linhas |-> 0,
                          aviso_datas |-> FALSE]

\* root.update() of limpar_texto returns
RetornarEmLimparTexto ==
    /\ pilha # <<>> /\ Topo.cb = "limpar_texto"
    /\ pilha' = Desempilhar
    /\ UNCHANGED <<tela, formato_selecionado, ano_fatura, colunas_modelo, texto_fatura,
                   progresso, arquivo_pdf_selecionado, ultima_chamada, resultado>>
    /\ UNCHANGED vars_run

\* root.update() of iniciar_animacao_processamento returns to processar_fatura: the
\* parser of the format, the table, the ordering block, the new workbook (written or
\* not), down to the root.update() of finalizar_animacao_processamento
RetornarEmProcessarFatura ==
    /\ pilha # <<>> /\ Topo.cb = "processar_fatura" /\ Topo.pc = "571"
    /\ LET t == Topo.texto
           levanta == formato_selecionado = "sicoob" /\ SicoobLevanta(t)
           ds == IF levanta THEN <<>>
                 ELSE IF formato_selecionado = "santander"
                      THEN ProcessarFormatoSantander(t)
                      ELSE ProcessarFormatoSicoob(t, ano_fatura)
           nome == IdentificarColunaData(colunas_modelo[1])
           tabela == MontarTabela(ds, colunas_modelo[1], nome)
       IN  /\ ultima_chamada' = [formato |-> formato_selecionado, ano |-> ano_fatura]
           /\ \/ /\ levanta
                 /\ Finalizar("erro", 0, 0)
              \/ /\ ~levanta /\ ds = <<>>
                 /\ Finalizar("vazio", 0, 0)
              \/ /\ ~levanta /\ ds # <<>>
                 /\ \E ordenada \in Ordenacoes(tabela, Posicao(colunas_modelo[1], nome)),
                       salvou \in BOOLEAN :
                      IF salvou THEN Finalizar("sucesso", Len(ds), Len(ordenada))
                      ELSE Finalizar("erro", 0, 0)
    /\ UNCHANGED <<tela, formato_selecionado, ano_fatura, colunas_modelo, texto_fatura,
                   arquivo_pdf_selecionado>>
    /\ UNCHANGED vars_run

\* root.update() of iniciar_animacao_processamento returns to
\* processar_pdf_selecionado: the OCR reads a text or fails, the text replaces the
\* content of the text area (TclError when the widget was destroyed), down to the
\* root.update() of finalizar_animacao_processamento
RetornarEmProcessarPdf ==
    /\ pilha # <<>> /\ Topo.cb = "processar_pdf_selecionado" /\ Topo.pc = "571"
    /\ \/ /\ UNCHANGED texto_fatura
          /\ Finalizar("erro", 0, 0)
       \/ \E extraido \in TextosUI :
            IF texto_fatura.vivo
            THEN /\ texto_fatura' = [texto_fatura EXCEPT !.conteudo = extraido]
                 /\ Finalizar("extraido", 0, 0)
            ELSE /\ UNCHANGED texto_fatura
                 /\ Finalizar("erro", 0, 0)
    /\ UNCHANGED <<tela, formato_selecionado, ano_fatura, colunas_modelo,
                   arquivo_pdf_selecionado, ultima_chamada>>
    /\ UNCHANGED vars_run

\* root.update() of finalizar_animacao_processamento returns, and the callback ends,
\* through the dialog of its outcome when it has one
RetornarDeFinalizar ==
    /\ pilha # <<>> /\ Topo.pc = "585"
    /\ pilha' = Desempilhar
    /\ UNCHANGED <<tela, formato_selecionado, ano_fatura, colunas_modelo, texto_fatura,
                   progresso, arquivo_pdf_selecionado, ultima_chamada, resultado>>
    /\ UNCHANGED vars_run

Next ==
    \/ ClicarSantander \/ ClicarSicoob \/ Colar \/ ClicarVoltar
    \/ ClicarLimpar \/ ClicarGerar \/ ClicarUpload
    \/ RetornarEmLimparTexto \/ RetornarEmProcessarFatura
    \/ RetornarEmProcessarPdf \/ RetornarDeFinalizar

Spec == Init /\ [][Next]_vars

(***************************************************************************)
(* The words of the claims about the two grammars                          *)
(***************************************************************************)
\* linha.split(): the tokens of a line
RECURSIVE Palavras(_)
Palavras(s) ==
    LET t == StripEsquerda(s)
        f == CHOOSE i \in 1..(Len(t) + 1) :
               /\ i = Len(t) + 1 \/ t[i] \in Branco
               /\ \A k \in 1..(i - 1) : t[k] \notin Branco
    IN  IF t = <<>> THEN <<>>
        ELSE <<SubSeq(t, 1, f - 1)>> \o Palavras(SubSeq(t, f, Len(t)))

\* a token written with '.' between groups of three digits and ',' before two decimals
ValorBemFormado(tok) == tok # <<>> /\ FimValor(tok, 1) = Len(tok) + 1

\* the number such a token denotes, the sign included
ValorDecimal(tok) ==
    LET cent == ValorInt(SelectSeq(tok, LAMBDA c : c \in Digito))
    IN  [m |-> IF tok # <<>> /\ Head(tok) = "-" THEN 0 - cent ELSE cent, e |-> 2]

\* a DD/MM/YYYY token
DataCompleta(tok) == Len(tok) = 10 /\ DataCompletaEm(tok, 1)

\* the line is a date, a description and an amount at token i that n further
\* amount-shaped tokens follow, the last of which need only begin with a digit when
\* it is the third number of the line
FormaPrincipal(w, i, n) ==
    /\ i >= 3 /\ i + n <= Len(w)
    /\ DataCompleta(w[1])
    /\ ValorBemFormado(w[i])
    /\ \A k \in 1..n :
         IF k = 2 THEN EhDigito(w[i + k], 1) ELSE ValorBemFormado(w[i + k])

\* the first token at which the line has that form, 0 when it has it nowhere
TokenPrincipal(w, n) ==
    IF \E i \in 1..Len(w) : FormaPrincipal(w, i, n)
    THEN CHOOSE i \in 1..Len(w) :
           FormaPrincipal(w, i, n) /\ \A j \in 1..(i - 1) : ~FormaPrincipal(w, j, n)
    ELSE 0

\* the step of the Santander loop that is being taken, and its line
PassoEmSantander == fase = "santander" /\ pos <= Len(texto) /\ pos' = pos + 1

\* the step appends exactly one transaction, whose amount is that of token i of w
AcrescentaUma(w, i) ==
    /\ Len(dados') = Len(dados) + 1
    /\ SubSeq(dados', 1, Len(dados)) = dados
    /\ NumIgual(dados'[Len(dados')].Valor, ValorDecimal(w[i]))

\* C2 as stated: a Santander line that is a date, a description, a primary amount
\* greater than 0 and at least one further amount-shaped token yields exactly one
\* transaction, whose amount is the decimal value of the primary amount token.
C2_Original ==
    [][PassoEmSantander =>
        LET w == Palavras(texto[pos])
            i == TokenPrincipal(w, 1)
        IN  (i # 0 /\ Positivo(ValorDecimal(w[i]))) => AcrescentaUma(w, i)]_vars

\* C2 as amended: a Santander line that is a date, a description, a primary amount
\* greater than 0, a second amount-shaped token and a third token that begins with a
\* digit yields exactly one transaction, whose amount is the decimal value of the
\* primary amount token (its digits, with '.' removed and ',' read as the decimal
\* point).
C2_UmaTransacaoPorLinha ==
    [][PassoEmSantander =>
        LET w == Palavras(texto[pos])
            i == TokenPrincipal(w, 2)
        IN  (i # 0 /\ Positivo(ValorDecimal(w[i]))) => AcrescentaUma(w, i)]_vars

\* C2 witness: the second line had that form with a description of two tokens, and
\* its transaction follows the first line's
C2_Witness ==
    /\ fase = "santander" /\ pos = 3
    /\ LET w == Palavras(texto[2])
       IN  /\ TokenPrincipal(w, 2) = 4
           /\ Positivo(ValorDecimal(w[4]))
    /\ Len(dados) = 2
    /\ dados[2].Valor = [m |-> 123456, e |-> 2]

\* the line is a date, a description and, at token i, a '-'-signed amount
FormaNegativa(w, i) ==
    /\ i >= 3 /\ i <= Len(w)
    /\ DataCompleta(w[1])
    /\ Head(w[i]) = "-" /\ FimValor(w[i], 2) # 0

TemFormaNegativa(linha) ==
    \E i \in 1..Len(Palavras(linha)) : FormaNegativa(Palavras(linha), i)

\* C3 as stated: a line that matches the negative-amount fallback pattern (a date, a
\* description, a '-'-signed amount) yields no transaction, whatever follows the
\* signed amount.
C3_Original ==
    [][(PassoEmSantander /\ TemFormaNegativa(texto[pos])) => dados' = dados]_vars

\* C3 as amended: a line that matches the negative-amount fallback pattern and that
\* the primary pattern, which is tried first, does not match yields no transaction.
C3_EstornoIgnorado ==
    [][(/\ PassoEmSantander
        /\ TemFormaNegativa(texto[pos])
        /\ ~CasarPrincipal(Strip(texto[pos])).ok) => dados' = dados]_vars

\* C3 witness: the second line was such a reversal line, tokens after the signed
\* amount included, and only the first line's transaction is there
C3_Witness ==
    /\ fase = "santander" /\ pos = 3
    /\ FormaNegativa(Palavras(texto[2]), 3)
    /\ Len(Palavras(texto[2])) > 3
    /\ ~CasarPrincipal(Strip(texto[2])).ok
    /\ Len(dados) = 1

\* the step of the Sicoob loop that is being taken
PassoEmSicoob == fase = "sicoob" /\ pos <= Len(texto)

\* C4 as stated: every transaction processar_formato_sicoob emits comes from a line
\* whose last token is an amount written with '.' between thousands and ',' before the
\* decimals, optionally signed, and the emitted amount is that token's decimal value.
C4_Original ==
    [][(PassoEmSicoob /\ Len(dados') > Len(dados)) =>
        LET w == Palavras(texto[pos])
            tok == w[Len(w)]
        IN  /\ \/ ValorBemFormado(tok)
               \/ Head(tok) = "-" /\ ValorBemFormado(Tail(tok))
            /\ NumIgual(dados'[Len(dados')].Valor, ValorDecimal(tok))]_vars

\* the markers of a boilerplate line, as the specification lists them
MarcadoresC5 ==
    { <<"T", "O", "T", "A", "L">>,
      <<"S", "A", "L", "D", "O", " ", "A", "N", "T", "E", "R", "I", "O", "R">>,
      <<"G", "A", "S", "T", "O", "S", " ", "D", "E">> }

TemMarcadorC5(linha) == \E m \in MarcadoresC5 : Contem(linha, m)

\* C5: a Sicoob line that contains 'SALDO ANTERIOR', 'TOTAL' or 'GASTOS DE' yields no
\* transaction (and no error), also when it has the date, description and amount of a
\* transaction line.
C5_MarcadorIgnorado ==
    [][(PassoEmSicoob /\ TemMarcadorC5(texto[pos])) =>
        (dados' = dados /\ fase' = "sicoob" /\ pos' = pos + 1)]_vars

\* C5 witness: the second line had a marker and, for the pattern, was a transaction
\* of a positive amount; only the first line's transaction is there
C5_Witness ==
    /\ fase = "sicoob" /\ pos = 3
    /\ TemMarcadorC5(texto[2])
    /\ CasarSicoob(Strip(texto[2])).ok
    /\ Positivo(ConverterValor(CasarSicoob(Strip(texto[2])).valor_str))
    /\ Len(dados) = 1

(***************************************************************************)
(* The claims about the columns                                            *)
(***************************************************************************)
\* the candidate names, as the specification lists them
CandidatasC9 ==
    << <<"D", "a", "t", "a">>,
       <<"D", "a", "t", "a", " ", "V", "e", "n", "c", "i", "m", "e", "n", "t", "o">>,
       <<"D", "a", "t", "a", "_", "V", "e", "n", "c", "i", "m", "e", "n", "t", "o">>,
       <<"D", "t", "_", "V", "e", "n", "c", "i", "m", "e", "n", "t", "o">>,
       <<"D", "a", "t", "e">> >>

\* the positions of the candidate list whose name is a column of the template
PresentesC9 == {k \in 1..Len(CandidatasC9) : CandidatasC9[k] \in Elementos(colunas_modelo[1])}

\* the template's columns in every order
OrdensC9 ==
    LET cols == colunas_modelo[1]
    IN  {o \in [1..Len(cols) -> Elementos(cols)] :
            \A i, j \in 1..Len(cols) : i # j => o[i] # o[j]}

\* C9: identificar_coluna_data returns the first name of the candidate list, in the
\* list's order and compared exactly, that is a column of the template, whatever the
\* order of the template's columns; when none is, it returns the template's first
\* column.
C9_ColunaData ==
    fase # "identificar" =>
        /\ PresentesC9 # {} =>
             /\ \E k \in PresentesC9 :
                  /\ \A j \in PresentesC9 : k <= j
                  /\ nome_coluna_data = CandidatasC9[k]
             /\ \A outro \in OrdensC9 :
                  IdentificarColunaData(outro) = nome_coluna_data
        /\ PresentesC9 = {} => nome_coluna_data = colunas_modelo[1][1]

\* C9 witness: two candidates are columns, the one of lower priority first, and a
\* column that differs from a candidate only in case comes before both
C9_Witness ==
    /\ fase = "projetado"
    /\ colunas_modelo[1] = << <<"d", "a", "t", "a">>, <<"D", "a", "t", "e">>,
                              <<"D", "a", "t", "a">> >>
    /\ nome_coluna_data = <<"D", "a", "t", "a">>

\* the first column, in the template's order, whose lower-cased name contains a word
\* of the role; 0 when there is none
AlvoC10(papel) ==
    LET cols == colunas_modelo[1]
        tem(i) == \E palavra \in PalavrasChave(papel) : Contem(Lower(cols[i]), palavra)
    IN  IF \E i \in 1..Len(cols) : tem(i)
        THEN CHOOSE i \in 1..Len(cols) : tem(i) /\ \A j \in 1..(i - 1) : ~tem(j)
        ELSE 0

PapeisC10 == {"descricao", "valor", "observacao"}

\* C10: the value of each of the roles description, value and note is written to the
\* first column, in the template's order, whose lower-cased name contains a word of
\* the role, and to no column when there is none; a column that no role (the date
\* included) is written to holds the empty string.
C10_Projecao ==
    /\ [][(fase \in PapeisC10 /\ fase' # fase) =>
            IF AlvoC10(fase) = 0 THEN nova_linha' = nova_linha
            ELSE nova_linha' = [nova_linha EXCEPT
                                  ![AlvoC10(fase)] = ValorDoPapel(dados[1], fase)]]_vars
    /\ [](fase = "projetado" =>
            \A i \in 1..Len(colunas_modelo[1]) :
                (/\ colunas_modelo[1][i] # nome_coluna_data
                 /\ \A papel \in PapeisC10 : AlvoC10(papel) # i)
                    => df[Len(df)][i] = Str(<<>>))

\* C10 witness: a row whose description went to an upper-case column that is not
\* the first, whose value found its column, whose note found none, and with a column
\* left empty
C10_Witness ==
    /\ fase = "projetado"
    /\ colunas_modelo[1] = << <<"H", "i", "s", "t", "o", "r", "i", "c", "o">>,
                              <<"D", "E", "S", "C", "R", "I", "C", "A", "O">>,
                              <<"V", "a", "l", "o", "r">> >>
    /\ df[1][2] = Str(<<"U", "B", "E", "R">>)
    /\ df[1][3] = [tipo |-> "float", m |-> 123456, e |-> 2]
    /\ AlvoC10("observacao") = 0

(***************************************************************************)
(* The claims about the ordered table                                      *)
(***************************************************************************)
\* a date written DD/MM/YYYY whose day exists
DataValidaC6(tok) ==
    /\ DataCompleta(tok)
    /\ LET d == ValorInt(SubSeq(tok, 1, 2))
           m == ValorInt(SubSeq(tok, 4, 5))
           a == ValorInt(SubSeq(tok, 7, 10))
       IN  a >= 1 /\ m >= 1 /\ m <= 12 /\ d >= 1 /\ d <= DiasNoMes(a, m)

\* C6 as stated: the final table has at most as many rows as there are parsed
\* transactions, and exactly as many if and only if the date of every parsed
\* transaction is a valid DD/MM/YYYY date.
C6_Original ==
    fase = "ordenado" =>
        /\ Len(df) <= Len(dados)
        /\ Len(df) = Len(dados) <=> \A k \in 1..Len(dados) : DataValidaC6(dados[k].Data)

\* the date of a row of the final table, read from the resolved date column
DataDaLinhaC7(k) == ParseData(df[k][Posicao(colunas_modelo[1], nome_coluna_data)].s)

\* x is not after y, as calendar dates
NaoDepoisC7(x, y) ==
    \/ x.a < y.a
    \/ x.a = y.a /\ x.m < y.m
    \/ x.a = y.a /\ x.m = y.m /\ x.d <= y.d

\* C7: in the final table every row has a date in the resolved date column, and of
\* two adjacent rows the date of the earlier is not after the date of the later,
\* the dates compared as calendar dates.
C7_OrdemCrescente ==
    fase = "ordenado" =>
        /\ \A k \in 1..Len(df) : ~DataDaLinhaC7(k).nat
        /\ \A k \in 1..(Len(df) - 1) : NaoDepoisC7(DataDaLinhaC7(k), DataDaLinhaC7(k + 1))

\* C7 witness: 05/02/2024 was parsed before 10/01/2024 and the final table has the
\* row of 10/01/2024 first, against the order of the two strings
C7_Witness ==
    /\ fase = "ordenado"
    /\ colunas_modelo[1] = ColunasExemplo
    /\ Len(dados) = 2 /\ dados[1].Data = TokFevereiro /\ dados[2].Data = TokJaneiro
    /\ Len(df) = 2 /\ df[1][1] = Str(TokJaneiro) /\ df[2][1] = Str(TokFevereiro)

\* C8 as stated: the ordering block applied to the table it left yields that table
\* again, in the same row order.
C8_Original ==
    fase = "reordenado" => df = df_antes

(***************************************************************************)
(* The claim about the year of a Sicoob statement                          *)
(***************************************************************************)
\* C1 as stated: whenever processar_fatura calls the Sicoob parser the stored year is
\* an integer the user supplied, never None; and the processing screen of the format
\* 'sicoob' is never shown with the year None.
C1_Original ==
    /\ ultima_chamada.formato = "sicoob" => ultima_chamada.ano # NoneInt
    /\ (tela = "processamento" /\ formato_selecionado = "sicoob") => ano_fatura # NoneInt

(***************************************************************************)
(* The claims about the outcome of a run                                   *)
(***************************************************************************)
\* the step in which processar_fatura goes on from the root.update() of
\* iniciar_animacao_processamento: its frame is on top, and moves or leaves
PassoDeProcessarFatura ==
    /\ pilha # <<>> /\ Topo.cb = "processar_fatura" /\ Topo.pc = "571"
    /\ pilha' # pilha /\ Len(pilha') <= Len(pilha)

\* the parser of the selected format returns no transaction for the text of the run
ParseVazioC11 ==
    IF formato_selecionado = "santander"
    THEN ProcessarFormatoSantander(Topo.texto) = <<>>
    ELSE /\ ~SicoobLevanta(Topo.texto)
         /\ ProcessarFormatoSicoob(Topo.texto, ano_fatura) = <<>>

\* C11 as stated: a run whose parse yields no transaction ends with the outcome of
\* the empty result ("Nenhuma transacao de gasto encontrada"), not through the except
\* clause of processar_fatura and not with an exception.
C11_Original ==
    [][(PassoDeProcessarFatura /\ ParseVazioC11) => resultado'.fim = "vazio"]_vars

\* C12 as stated: after a successful run the number of transactions reported to the
\* user equals the number of rows of the final table.
C12_Original ==
    resultado.fim = "sucesso" => resultado.transacoes = resultado.linhas

\* C13 as stated: when the ordering block dropped a row for its date, the run goes on
\* with the other rows and a warning about the dates was shown during the run.
C13_Original ==
    (resultado.fim = "sucesso" /\ resultado.linhas < resultado.transacoes)
        => resultado.aviso_datas

(***************************************************************************)
(* The claim about the template's columns                                  *)
(***************************************************************************)
\* self.colunas_modelo is a list with at least one column
ColunasLidasC14 == colunas_modelo # <<>> /\ Len(colunas_modelo[1]) >= 1

\* a run of processar_fatura or of processar_pdf_selecionado is in progress
RunEmCursoC14 ==
    \E i \in 1..Len(pilha) :
        pilha[i].cb \in {"processar_fatura", "processar_pdf_selecionado"}

\* C14: when the columns of the template were not read, or are none, the window
\* stays empty, no callback runs, no parser is called and no run ends; while a run is
\* in progress colunas_modelo is a list of at least one column; and colunas_modelo
\* is never assigned after the start.
C14_SemColunasNaoProcessa ==
    /\ [](~ColunasLidasC14 =>
            /\ tela = "nenhuma" /\ pilha = <<>>
            /\ ultima_chamada = SemChamada /\ resultado = SemResultado)
    /\ [](RunEmCursoC14 => ColunasLidasC14)
    /\ [][colunas_modelo' = colunas_modelo]_vars

\* C14 witness: a run of processar_fatura has called the parser and is inside the
\* root.update() of finalizar_animacao_processamento, with the columns of the start
C14_Witness ==
    /\ pilha # <<>> /\ Topo.cb = "processar_fatura" /\ Topo.pc = "585"
    /\ ultima_chamada.formato = "santander"
    /\ resultado.fim = "sucesso"
    /\ colunas_modelo = Lista(ColunasExemplo)

(***************************************************************************)
(* The claim about rows of equal dates                                     *)
(***************************************************************************)
\* the position of the resolved date column
ColunaDataC15 == Posicao(colunas_modelo[1], nome_coluna_data)

\* row x of the final table is the row of transaction i, its date written again
EhLinhaDeC15(x, i) ==
    LET linha == NovaLinha(dados[i], colunas_modelo[1], nome_coluna_data)
        data == ParaData(linha[ColunaDataC15])
    IN  /\ ~data.nat
        /\ df[x] = [linha EXCEPT ![ColunaDataC15] = Str(Strftime(data))]

\* C15 as stated: the rows of the final table can be told to the transactions they
\* come from so that rows of the same date are in the order of their transactions in
\* the statement.
C15_Original ==
    fase = "ordenado" =>
        \E o \in [1..Len(df) -> 1..Len(dados)] :
            /\ \A x \in 1..Len(df) : EhLinhaDeC15(x, o[x])
            /\ \A x, y \in 1..Len(df) :
                 x < y => /\ o[x] # o[y]
                          /\ df[x][ColunaDataC15] = df[y][ColunaDataC15] => o[x] < o[y]

(***************************************************************************)
(* The claim that the parsers never raise                                  *)
(***************************************************************************)
\* C16 as stated: the parser never leaves by an exception, that is, float() converts
\* every amount token that the grammar has accepted on a line.
C16_Original == fase # "ValueError"

(***************************************************************************)
(* The claim that runs do not nest                                         *)
(***************************************************************************)
\* a callback of the buttons Gerar, Voltar, Limpar or of the upload is executed
CallbackC17 == ClicarGerar \/ ClicarVoltar \/ ClicarLimpar \/ ClicarUpload

\* C17 as stated: while a run of processar_fatura or of processar_pdf_selecionado is
\* between its start and its end, no callback of Gerar, Voltar, Limpar or of the upload
\* is executed.
C17_Original == [][RunEmCursoC14 => ~CallbackC17]_vars

(***************************************************************************)
(* The claim about the progress indicator                                  *)
(***************************************************************************)
\* a run of processar_fatura or of processar_pdf_selecionado goes on from the
\* root.update() of iniciar_animacao_processamento to its
\* finalizar_animacao_processamento
PassoDeRunC18 ==
    /\ pilha # <<>> /\ Topo.pc = "571"
    /\ Topo.cb \in {"processar_fatura", "processar_pdf_selecionado"}
    /\ pilha' # pilha /\ Len(pilha') <= Len(pilha)

\* with no callback in course the indicator is not running
C18_NaoFicaRodando == pilha = <<>> => progresso # "rodando"

\* C18 as stated: every run that started the indicator stops and hides it, whatever
\* its end, and the indicator is not running once the runs have returned.
C18_Original ==
    /\ []C18_NaoFicaRodando
    /\ [][PassoDeRunC18 => progresso' = "parado"]_vars

(***************************************************************************)
(* The claim that the date column keeps the date                           *)
(***************************************************************************)
\* C19 as stated: in every row of the assembled table the resolved date column holds
\* the date of the row's transaction; no role is written over it.
C19_Original ==
    fase = "projetado" =>
        \A k \in 1..Len(df) :
            df[k][Posicao(colunas_modelo[1], nome_coluna_data)] = Str(dados[k].Data)

=============================================================================
